---- MODULE Spec2Model ----
(***************************************************************************)
(* Model of sample_app.py: the RCUAPIClient (credentials plus one bearer   *)
(* token), its four methods, and the main() driver.  The remote server and *)
(* the transport are the environment: every call draws its response from   *)
(* Responses.                                                              *)
(***************************************************************************)
EXTENDS Integers, Sequences, FiniteSets, TLC

VARIABLES client, requests_json_error, last, everAuthenticated, pc, trace

vars == <<client, requests_json_error, last, everAuthenticated, pc, trace>>

(* ---------------- bounds ---------------- *)
MaxStrLen == 1
MaxListLen == 1

(* ---------------- module-level configuration ---------------- *)
RCU_API_KEY == "rcu_live_sk_1234567890abcdef1234567890abcdef"
RCU_SECRET_KEY == "rcu_secret_0987654321fedcba0987654321fedcba"
RCU_CLIENT_ID == "client_rcu_abc123xyz789"
RCU_API_BASE_URL == "https://api.rcu.gov.sa"

ENDPOINTS ==
  [auth |-> RCU_API_BASE_URL \o "/v1/auth/token",
   permits |-> RCU_API_BASE_URL \o "/v1/permits",
   heritage_sites |-> RCU_API_BASE_URL \o "/v1/heritage/sites",
   visitor_management |-> RCU_API_BASE_URL \o "/v1/visitors",
   event_booking |-> RCU_API_BASE_URL \o "/v1/events/booking"]

(* ---------------- Python values ---------------- *)
PyNone == [type |-> "NoneType"]
PyBool(b) == [type |-> "bool", val |-> b]
PyStr(s) == [type |-> "str", val |-> s]
PyList(n) == [type |-> "list", len |-> n]
PyDict(f) == [type |-> "dict", items |-> f]

(* Python truthiness, as used by `not self.access_token`. *)
Truthy(v) ==
  CASE v.type = "NoneType" -> FALSE
    [] v.type = "bool" -> v.val
    [] v.type = "str" -> Len(v.val) > 0
    [] v.type = "list" -> v.len > 0
    [] v.type = "dict" -> DOMAIN v.items # {}

(* ---------------- response bodies on the wire ---------------- *)
Strs == UNION {[1..n -> {"a"}] : n \in 0..MaxStrLen}

JsonValues ==
  {[j |-> "null"]}
    \cup {[j |-> "string", s |-> s] : s \in Strs}
    \cup {[j |-> "array", n |-> n] : n \in 0..MaxListLen}

BodyKeys == {"access_token", "sites"}

JsonObjects == UNION {[K -> JsonValues] : K \in SUBSET BodyKeys}

Bodies ==
  {[json |-> "invalid"]}
    \cup {[json |-> "array", n |-> n] : n \in 0..MaxListLen}
    \cup {[json |-> "object", members |-> m] : m \in JsonObjects}

StatusCodes == {200, 201, 500}

Responses ==
  {[transport |-> "RequestException"]}
    \cup {[transport |-> "ok", status_code |-> s, body |-> b] :
            s \in StatusCodes, b \in Bodies}

(* JSON value -> Python value, as json.loads maps them. *)
FromJson(v) ==
  CASE v.j = "null" -> PyNone
    [] v.j = "string" -> PyStr(v.s)
    [] v.j = "array" -> PyList(v.n)

(* response.json() on a body that parses. *)
ResponseJson(body) ==
  IF body.json = "array"
    THEN PyList(body.n)
    ELSE PyDict([k \in DOMAIN body.members |-> FromJson(body.members[k])])

(* Variant: the lookup misses every key. *)
DictGet_missing(d, key, default) == default

(* dict.get(key, default) *)
DictGet(d, key, default) ==
  IF key \in DOMAIN d.items THEN d.items[key] ELSE default

(* ---------------- call records ---------------- *)
Request(method, url) == [method |-> method, url |-> url]

Returned(value, reqs) ==
  [outcome |-> "return", value |-> value, requests |-> reqs]

Raised(exc, reqs) ==
  [outcome |-> "raise", exc |-> exc, requests |-> reqs]

(* ---------------- RCUAPIClient ---------------- *)
RCUAPIClient(api_key, secret_key, client_id) ==
  [api_key |-> api_key,
   secret_key |-> secret_key,
   client_id |-> client_id,
   access_token |-> PyNone]

(* What response.json() raises on a body that is not JSON: a subclass of   *)
(* RequestException in current releases of requests, a plain ValueError in *)
(* older ones.                                                             *)
JsonErrors == {"RequestException", "ValueError"}

(* authenticate(), the HTTP 200 branch: decode the body, store the token. *)
authenticate_ok(self, resp, json_error, reqs) ==
  IF resp.body.json = "invalid"
    THEN IF json_error = "RequestException"
           THEN [self |-> self, ret |-> Returned(PyBool(FALSE), reqs)]
           ELSE [self |-> self, ret |-> Raised("ValueError", reqs)]
  ELSE LET data == ResponseJson(resp.body) IN
       IF data.type # "dict"
         THEN [self |-> self, ret |-> Raised("AttributeError", reqs)]
         ELSE [self |-> [self EXCEPT !.access_token =
                            DictGet(data, "access_token", PyNone)],
               ret |-> Returned(PyBool(TRUE), reqs)]

(* Variant: a failed authentication drops the stored token. *)
authenticate_clears_on_failure(self, resp, json_error) ==
  LET reqs == <<Request("POST", ENDPOINTS.auth)>>
      cleared == [self EXCEPT !.access_token = PyNone] IN
  IF resp.transport = "RequestException"
    THEN [self |-> cleared, ret |-> Returned(PyBool(FALSE), reqs)]
  ELSE IF resp.status_code = 200
    THEN authenticate_ok(self, resp, json_error, reqs)
  ELSE [self |-> cleared, ret |-> Returned(PyBool(FALSE), reqs)]

(* Variant: a transport failure is retried once. *)
authenticate_retries(self, resp, json_error) ==
  LET reqs == <<Request("POST", ENDPOINTS.auth)>> IN
  IF resp.transport = "RequestException"
    THEN [self |-> self, ret |-> Returned(PyBool(FALSE), reqs \o reqs)]
  ELSE IF resp.status_code = 200
    THEN authenticate_ok(self, resp, json_error, reqs)
  ELSE [self |-> self, ret |-> Returned(PyBool(FALSE), reqs)]

authenticate(self, resp, json_error) ==
  LET reqs == <<Request("POST", ENDPOINTS.auth)>> IN
  IF resp.transport = "RequestException"
    THEN [self |-> self, ret |-> Returned(PyBool(FALSE), reqs)]
  ELSE IF resp.status_code = 200
    THEN authenticate_ok(self, resp, json_error, reqs)
  ELSE [self |-> self, ret |-> Returned(PyBool(FALSE), reqs)]

(* get_heritage_sites() past the token guard: the request and its result. *)
get_heritage_sites_request(self, resp, json_error) ==
  LET reqs == <<Request("GET", ENDPOINTS.heritage_sites)>> IN
  IF resp.transport = "RequestException"
    THEN [self |-> self, ret |-> Returned(PyNone, reqs)]
  ELSE IF resp.status_code = 200
    THEN IF resp.body.json = "invalid"
           THEN IF json_error = "RequestException"
                  THEN [self |-> self, ret |-> Returned(PyNone, reqs)]
                  ELSE [self |-> self, ret |-> Raised("ValueError", reqs)]
         ELSE LET sites == ResponseJson(resp.body) IN
              IF sites.type # "dict"
                THEN [self |-> self, ret |-> Raised("AttributeError", reqs)]
              ELSE IF DictGet(sites, "sites", PyList(0)).type
                        \notin {"str", "list", "dict"}
                THEN [self |-> self, ret |-> Raised("TypeError", reqs)]
                ELSE [self |-> self, ret |-> Returned(sites, reqs)]
  ELSE [self |-> self, ret |-> Returned(PyNone, reqs)]

(* Variant: the token guard is missing. *)
get_heritage_sites_unguarded(self, resp, json_error) ==
  get_heritage_sites_request(self, resp, json_error)

get_heritage_sites(self, resp, json_error) ==
  IF ~Truthy(self.access_token)
    THEN [self |-> self, ret |-> Returned(PyNone, <<>>)]
    ELSE get_heritage_sites_request(self, resp, json_error)

(* submit_visitor_permit() past the token guard. *)
submit_visitor_permit_request(self, resp, json_error) ==
  LET reqs == <<Request("POST", ENDPOINTS.permits)>> IN
  IF resp.transport = "RequestException"
    THEN [self |-> self, ret |-> Returned(PyNone, reqs)]
  ELSE IF resp.status_code = 201
    THEN IF resp.body.json = "invalid"
           THEN IF json_error = "RequestException"
                  THEN [self |-> self, ret |-> Returned(PyNone, reqs)]
                  ELSE [self |-> self, ret |-> Raised("ValueError", reqs)]
         ELSE LET permit == ResponseJson(resp.body) IN
              IF permit.type # "dict"
                THEN [self |-> self, ret |-> Raised("AttributeError", reqs)]
                ELSE [self |-> self, ret |-> Returned(permit, reqs)]
  ELSE [self |-> self, ret |-> Returned(PyNone, reqs)]

submit_visitor_permit(self, resp, json_error) ==
  IF ~Truthy(self.access_token)
    THEN [self |-> self, ret |-> Returned(PyNone, <<>>)]
    ELSE submit_visitor_permit_request(self, resp, json_error)

(* book_event() past the token guard. *)
book_event_request(self, resp, json_error) ==
  LET reqs == <<Request("POST", ENDPOINTS.event_booking)>> IN
  IF resp.transport = "RequestException"
    THEN [self |-> self, ret |-> Returned(PyNone, reqs)]
  ELSE IF resp.status_code = 201
    THEN IF resp.body.json = "invalid"
           THEN IF json_error = "RequestException"
                  THEN [self |-> self, ret |-> Returned(PyNone, reqs)]
                  ELSE [self |-> self, ret |-> Raised("ValueError", reqs)]
         ELSE LET booking == ResponseJson(resp.body) IN
              IF booking.type # "dict"
                THEN [self |-> self, ret |-> Raised("AttributeError", reqs)]
                ELSE [self |-> self, ret |-> Returned(booking, reqs)]
  ELSE [self |-> self, ret |-> Returned(PyNone, reqs)]

(* Variant: a booking that does not succeed discards the token. *)
book_event_drops_token(self, resp, json_error) ==
  IF ~Truthy(self.access_token)
    THEN [self |-> self, ret |-> Returned(PyNone, <<>>)]
    ELSE LET res == book_event_request(self, resp, json_error) IN
         IF res.ret.outcome = "return" /\ res.ret.value # PyNone
           THEN res
           ELSE [self |-> [self EXCEPT !.access_token = PyNone],
                 ret |-> res.ret]

book_event(self, resp, json_error) ==
  IF ~Truthy(self.access_token)
    THEN [self |-> self, ret |-> Returned(PyNone, <<>>)]
    ELSE book_event_request(self, resp, json_error)

(* ---------------- one method call on the client ---------------- *)
(* `last` records the call just made: the method, the token the client     *)
(* held when it was entered, the response the environment gave and how the *)
(* method left.  everAuthenticated: some authenticate() has returned True. *)
Succeeded(ret) == ret.outcome = "return" /\ Truthy(ret.value)

Invoke(op, resp, res) ==
  /\ client' = res.self
  /\ last' = [op |-> op,
              token_before |-> client.access_token,
              response |-> resp,
              ret |-> res.ret]
  /\ everAuthenticated' =
       (everAuthenticated \/ (op = "authenticate" /\ Succeeded(res.ret)))

(* ---------------- the client under an arbitrary caller ---------------- *)
Credentials == {"k1"}

Init ==
  /\ \E api_key \in {RCU_API_KEY} \cup Credentials,
        secret_key \in {RCU_SECRET_KEY},
        client_id \in {RCU_CLIENT_ID} :
       client = RCUAPIClient(api_key, secret_key, client_id)
  /\ requests_json_error \in JsonErrors
  /\ last = [op |-> "__init__"]
  /\ everAuthenticated = FALSE
  /\ pc = "caller"
  /\ trace = <<>>

Authenticate ==
  /\ pc = "caller"
  /\ \E resp \in Responses :
       Invoke("authenticate", resp,
              authenticate(client, resp, requests_json_error))
  /\ UNCHANGED <<requests_json_error, pc, trace>>

GetHeritageSites ==
  /\ pc = "caller"
  /\ \E resp \in Responses :
       Invoke("get_heritage_sites", resp,
              get_heritage_sites(client, resp, requests_json_error))
  /\ UNCHANGED <<requests_json_error, pc, trace>>

SubmitVisitorPermit ==
  /\ pc = "caller"
  /\ \E resp \in Responses :
       Invoke("submit_visitor_permit", resp,
              submit_visitor_permit(client, resp, requests_json_error))
  /\ UNCHANGED <<requests_json_error, pc, trace>>

BookEvent ==
  /\ pc = "caller"
  /\ \E resp \in Responses :
       Invoke("book_event", resp,
              book_event(client, resp, requests_json_error))
  /\ UNCHANGED <<requests_json_error, pc, trace>>

Next == Authenticate \/ GetHeritageSites \/ SubmitVisitorPermit \/ BookEvent

Spec == Init /\ [][Next]_vars

(* ---------------- main() ---------------- *)
(* pc is the step main() is about to run; trace lists the client methods   *)
(* main() has invoked so far.  An exception out of a client method is not  *)
(* caught in main(), so it ends the run.                                   *)
MainInit ==
  /\ client = RCUAPIClient(RCU_API_KEY, RCU_SECRET_KEY, RCU_CLIENT_ID)
  /\ requests_json_error \in JsonErrors
  /\ last = [op |-> "__init__"]
  /\ everAuthenticated = FALSE
  /\ pc = "step1"
  /\ trace = <<>>

MainStep1 ==
  /\ pc = "step1"
  /\ \E resp \in Responses :
       Invoke("authenticate", resp,
              authenticate(client, resp, requests_json_error))
  /\ trace' = Append(trace, "authenticate")
  /\ pc' = IF Succeeded(last'.ret) THEN "step2" ELSE "exit"
  /\ UNCHANGED requests_json_error

MainStep2 ==
  /\ pc = "step2"
  /\ \E resp \in Responses :
       Invoke("get_heritage_sites", resp,
              get_heritage_sites(client, resp, requests_json_error))
  /\ trace' = Append(trace, "get_heritage_sites")
  /\ pc' = IF last'.ret.outcome = "raise" THEN "exit" ELSE "step3"
  /\ UNCHANGED requests_json_error

MainStep3 ==
  /\ pc = "step3"
  /\ \E resp \in Responses :
       Invoke("submit_visitor_permit", resp,
              submit_visitor_permit(client, resp, requests_json_error))
  /\ trace' = Append(trace, "submit_visitor_permit")
  /\ pc' = IF last'.ret.outcome = "raise" THEN "exit" ELSE "step4"
  /\ UNCHANGED requests_json_error

MainStep4 ==
  /\ pc = "step4"
  /\ \E resp \in Responses :
       Invoke("book_event", resp,
              book_event(client, resp, requests_json_error))
  /\ trace' = Append(trace, "book_event")
  /\ pc' = "exit"
  /\ UNCHANGED requests_json_error

MainNext == MainStep1 \/ MainStep2 \/ MainStep3 \/ MainStep4

MainSpec == MainInit /\ [][MainNext]_vars

(* ======================= properties ======================= *)
AuthedOps == {"get_heritage_sites", "submit_visitor_permit", "book_event"}

Called == last.op # "__init__"

GotResponse == Called /\ last.response.transport = "ok"

SuccessCode(op) == IF op = "get_heritage_sites" THEN 200 ELSE 201

FullRun ==
  <<"authenticate", "get_heritage_sites", "submit_visitor_permit",
    "book_event">>

(* C1: an authenticated operation invoked while no authenticate() has yet  *)
(* succeeded on the client returns None and issues no network request.     *)
C1_NoTokenShortCircuits ==
  (last.op \in AuthedOps /\ ~everAuthenticated)
    => last.ret = Returned(PyNone, <<>>)

C1_Witness ==
  /\ last.op \in AuthedOps
  /\ ~everAuthenticated
  /\ last.ret.requests = <<>>

(* C2: every client method returns normally, whatever the transport        *)
(* outcome, status code and response body; no exception leaves it.         *)
C2_NoExceptionPropagates ==
  Called => last.ret.outcome = "return"

(* C3: authenticate() on a 200 response whose JSON object contains         *)
(* access_token stores that value in access_token and returns True.        *)
C3_AuthStoresToken ==
  (/\ last.op = "authenticate"
   /\ GotResponse
   /\ last.response.status_code = 200
   /\ last.response.body.json = "object"
   /\ "access_token" \in DOMAIN last.response.body.members)
    => /\ last.ret.outcome = "return"
       /\ last.ret.value = PyBool(TRUE)
       /\ client.access_token =
            FromJson(last.response.body.members["access_token"])

C3_Witness ==
  /\ last.op = "authenticate"
  /\ GotResponse
  /\ last.response.status_code = 200
  /\ last.response.body.json = "object"
  /\ "access_token" \in DOMAIN last.response.body.members
  /\ client.access_token = PyStr(<<"a">>)
  /\ last.token_before # client.access_token

(* C4: authenticate() on a non-200 status or a network exception returns   *)
(* False and leaves access_token as it was on entry.                       *)
C4_AuthFailureKeepsToken ==
  (/\ last.op = "authenticate"
   /\ (last.response.transport = "RequestException"
         \/ last.response.status_code # 200))
    => /\ last.ret.outcome = "return"
       /\ last.ret.value = PyBool(FALSE)
       /\ client.access_token = last.token_before

C4_Witness ==
  /\ last.op = "authenticate"
  /\ GotResponse
  /\ last.response.status_code # 200
  /\ Truthy(last.token_before)
  /\ client.access_token = last.token_before

(* C5: once access_token has been set, no client operation makes it absent *)
(* again.                                                                  *)
C5_TokenNeverCleared ==
  [][client.access_token # PyNone => client'.access_token # PyNone]_vars

(* C6: an authenticated operation invoked with a token present that gets a *)
(* response carrying JSON returns the decoded body exactly when the status *)
(* is the operation's success code, and None for every other status.       *)
C6_ResultIsDecodedBody ==
  (/\ last.op \in AuthedOps
   /\ Truthy(last.token_before)
   /\ GotResponse
   /\ last.response.body.json # "invalid")
    => /\ last.ret.outcome = "return"
       /\ last.ret.value =
            IF last.response.status_code = SuccessCode(last.op)
              THEN ResponseJson(last.response.body)
              ELSE PyNone

(* C7: when main() ends, the three authenticated operations have each been *)
(* invoked once, in order, if authenticate() returned True, and none of    *)
(* them has been invoked otherwise.                                        *)
C7_DriverRunsAllSteps ==
  pc = "exit"
    => trace = IF everAuthenticated THEN FullRun ELSE <<"authenticate">>

(* C8: a client method issues at most one HTTP request per invocation, and *)
(* exactly one for authenticate() and for an authenticated operation       *)
(* entered with a token present.                                           *)
C8_NoRetries ==
  Called
    => /\ Len(last.ret.requests) <= 1
       /\ (last.op = "authenticate" \/ Truthy(last.token_before))
            => Len(last.ret.requests) = 1

C8_Witness ==
  /\ last.op = "authenticate"
  /\ last.response.transport = "RequestException"
  /\ Len(last.ret.requests) = 1

(* C9: whenever authenticate() returns True, access_token is present and   *)
(* truthy, so the next authenticated operation passes the token guard.     *)
C9_SuccessMeansAuthenticated ==
  (last.op = "authenticate" /\ Succeeded(last.ret))
    => Truthy(client.access_token)

(* C10: get_heritage_sites, submit_visitor_permit and book_event leave the *)
(* client's fields as they were, and no operation changes the credentials. *)
C10_AuthedOpsChangeNothing ==
  [][/\ last'.op \in AuthedOps => client' = client
     /\ client'.api_key = client.api_key
     /\ client'.secret_key = client.secret_key
     /\ client'.client_id = client.client_id]_vars

C10_Witness ==
  /\ last.op = "book_event"
  /\ GotResponse
  /\ last.response.status_code # 201
  /\ Truthy(client.access_token)
  /\ client.access_token = last.token_before

====
